---- MODULE Spec2Model ----
(***************************************************************************)
(* A model of the security policies of pulumi-awsguard (src/src/security.ts)*)
(* and of the validation run that evaluates them against a stack.          *)
(*                                                                         *)
(* The policy bodies, the typed filter validateTypedResources and the      *)
(* construction of the policy list are translated from security.ts.  The   *)
(* dispatcher, the resolver, the cloud provider and the resource-scoped    *)
(* filter are collaborators that live outside the source tree; they are    *)
(* modelled from the design document (sections 4.1 - 4.5 and 6).           *)
(*                                                                         *)
(* An optional value (a JavaScript value that may be undefined) is the     *)
(* empty sequence when undefined and a one-element sequence otherwise.     *)
(***************************************************************************)
EXTENDS Integers, Sequences, FiniteSets, TLC

\* ---------------------------------------------------------------- bounds
\* Longest resource graph the initial states enumerate.
MaxGraph == 2
\* Most access keys the provider holds for the user.
MaxListing == 2
\* Largest page the provider serves.
MaxPageSize == 2
\* Most MFA devices on the first page of a device listing.
MaxDevices == 2

\* ------------------------------------------------------------- constants
\* Milliseconds in a day.
msInDay == 24 * 60 * 60 * 1000

\* Date.now(): the run is short against a day, so one instant stands for it.
Now == 3 * msInDay

Undefined == <<>>
NoString == "undefined"

Min(a, b) == IF a < b THEN a ELSE b

\* ------------------------------------------------------- the stack's graph
CertificateType == "aws:acm/certificate:Certificate"
AccessKeyType == "aws:iam/accessKey:AccessKey"
KeyType == "aws:kms/key:Key"
UserLoginProfileType == "aws:iam/userLoginProfile:UserLoginProfile"
DomainType == "aws:elasticsearch/domain:Domain"

Certificates == {[type |-> CertificateType, props |-> [id |-> "arn1"]]}

AccessKeys ==
    { [type |-> AccessKeyType, props |-> [id |-> "k1", status |-> "Active", user |-> "u1"]],
      [type |-> AccessKeyType, props |-> [id |-> "k1", status |-> "Inactive", user |-> "u1"]],
      [type |-> AccessKeyType, props |-> [id |-> NoString, status |-> "Active", user |-> "u1"]] }

Keys == {[type |-> KeyType, props |-> [enableKeyRotation |-> FALSE]]}

UserLoginProfiles == {[type |-> UserLoginProfileType, props |-> [user |-> "u1"]]}

Domains ==
    { [type |-> DomainType, props |-> [domainName |-> "d1", encryptAtRest |-> Undefined]],
      [type |-> DomainType, props |-> [domainName |-> "d2", encryptAtRest |-> <<[enabled |-> FALSE]>>]],
      [type |-> DomainType, props |-> [domainName |-> "d3", encryptAtRest |-> <<[enabled |-> TRUE]>>]] }

Resources == Certificates \cup AccessKeys \cup Keys \cup UserLoginProfiles \cup Domains

SeqsUpTo(S, n) == UNION {[1..k -> S] : k \in 0..n}

\* ------------------------------------------------- the provider's account
\* An access key as listAccessKeys describes it.
AccessKeyMetadata ==
    { [AccessKeyId |-> "k1", CreateDate |-> <<Now - 2 * msInDay>>],
      [AccessKeyId |-> "k1", CreateDate |-> <<Now - 2 * msInDay + 1>>],
      [AccessKeyId |-> "k1", CreateDate |-> Undefined],
      [AccessKeyId |-> "k2", CreateDate |-> <<Now - 2 * msInDay>>] }

\* "ok" pages the listing to its end; "endless" reports more data on every
\* page and keeps handing out a cursor; "nocursor" reports more data on every
\* page and hands out no cursor on the last one.
Modes == {"ok", "endless", "nocursor"}

Accounts ==
    [listing : SeqsUpTo(AccessKeyMetadata, MaxListing), pageSize : 1..MaxPageSize, mode : Modes]

\* One page of the user's keys: listPage(queryKey, cursor) of the provider.
ListAccessKeysPage(account, marker) ==
    LET off == IF marker = Undefined THEN 0 ELSE marker[1]
        hi == Min(off + account.pageSize, Len(account.listing))
        more == hi < Len(account.listing)
    IN  [ AccessKeyMetadata |-> SubSeq(account.listing, off + 1, hi),
          IsTruncated |-> (account.mode # "ok") \/ more,
          Marker |-> IF more \/ account.mode = "endless" THEN <<hi>> ELSE Undefined ]

\* describeCertificate's answers: no certificate, a certificate with no
\* expiry, or one that expires at the given instant.
DescribeCertificateResponses ==
    { [Certificate |-> Undefined], [Certificate |-> <<[NotAfter |-> Undefined]>>] }
    \cup { [Certificate |-> <<[NotAfter |-> <<Now + d>>]>>] :
             d \in {0 - 1, msInDay, 14 * msInDay - 1, 14 * msInDay} }

\* ------------------------------------------------------------- settings
EnforcementLevels == {"advisory", "mandatory", "disabled"}

\* getValueOrDefault of ./util: the override if present, else the default.
getValueOrDefault(val, def) == IF val = Undefined THEN def ELSE val[1]

\* What a factory that throws leaves in place of a policy.
Throw == [threw |-> "Invalid maxKeyAge."]

acmCheckCertificateExpiration(enforcementLevel, maxDaysUntilExpiration) ==
    [ name |-> "acm-certificate-expiration",
      enforcementLevel |-> enforcementLevel,
      scope |-> "stack",
      max |-> maxDaysUntilExpiration ]

cmkBackingKeyRotationEnabled(enforcementLevel) ==
    [ name |-> "cmk-backing-key-rotation-enabled",
      enforcementLevel |-> enforcementLevel,
      scope |-> "resource",
      max |-> 0 ]

\* The lower limit off by one: a maxKeyAge of 0 is let through.
InvalidMaxKeyAge_zeroAllowed(maxKeyAge) == maxKeyAge < 0 \/ maxKeyAge > 2 * 365

InvalidMaxKeyAge(maxKeyAge) == maxKeyAge < 1 \/ maxKeyAge > 2 * 365

iamAccessKeysRotated(enforcementLevel, maxKeyAge) ==
    IF InvalidMaxKeyAge(maxKeyAge)
    THEN Throw
    ELSE [ name |-> "access-keys-rotated",
           enforcementLevel |-> enforcementLevel,
           scope |-> "stack",
           max |-> maxKeyAge ]

iamMfaEnabledForConsoleAccess(enforcementLevel) ==
    [ name |-> "mfa-enabled-for-iam-console-access",
      enforcementLevel |-> enforcementLevel,
      scope |-> "resource",
      max |-> 0 ]

\* The policy of ../elasticsearch, as its tests describe it.
elasticsearchEncryptedAtRest(enforcementLevel) ==
    [ name |-> "elasticsearch-encrypted-at-rest",
      enforcementLevel |-> enforcementLevel,
      scope |-> "resource",
      max |-> 0 ]

\* The array literal evaluates its elements in order; one that throws makes
\* the whole call throw.
getPolicies(enforcement, s) ==
    LET iam == iamAccessKeysRotated(enforcement,
                   getValueOrDefault(s.iamAccessKeysRotatedMaxDays, 90))
    IN  IF iam = Throw
        THEN [threw |-> TRUE, list |-> <<>>]
        ELSE [ threw |-> FALSE,
               list |-> << acmCheckCertificateExpiration(enforcement,
                               getValueOrDefault(s.acmCheckCertificateExpirationMaxDays, 14)),
                           cmkBackingKeyRotationEnabled(enforcement),
                           iam,
                           iamMfaEnabledForConsoleAccess(enforcement) >> ]

\* The pack: the security policies followed by the elasticsearch group.
PolicyPack(enforcement, s) ==
    LET security == getPolicies(enforcement, s)
    IN  IF security.threw
        THEN security
        ELSE [security EXCEPT !.list = @ \o <<elasticsearchEncryptedAtRest(enforcement)>>]

PolicyNames ==
    { "acm-certificate-expiration", "cmk-backing-key-rotation-enabled",
      "access-keys-rotated", "mfa-enabled-for-iam-console-access",
      "elasticsearch-encrypted-at-rest" }

\* -------------------------------------------------------- the typed filter
\* Resource.isInstance of a resource class: the type token decides.
isInstance(type, o) == o["__pulumiType"] = type

\* { ...r.props, __pulumiType: r.type }
Tagged(r) == r.props @@ ("__pulumiType" :> r.type)

\* The matching resources handed over last first.
validateTypedResources_reversed(type, resources) ==
    LET kept == SelectSeq([k \in 1..Len(resources) |-> Tagged(resources[k])],
                          LAMBDA o : isInstance(type, o))
    IN  [k \in 1..Len(kept) |-> kept[Len(kept) + 1 - k]]

\* The resources a stack validation hands to its body.
validateTypedResources(type, resources) ==
    SelectSeq([k \in 1..Len(resources) |-> Tagged(resources[k])],
              LAMBDA o : isInstance(type, o))

\* ---------------------------------------------------------- policy bodies
\* !x of a string: undefined and the empty string are falsy.
Falsy(str) == str = NoString \/ str = ""

\* Math.floor((NotAfter - Date.now()) / msInDay)
DaysUntilExpiry(notAfter) == (notAfter - Now) \div msInDay

\* The threshold taken inclusively.
CertExpiresSoon_inclusive(certDescription, maxDaysUntilExpiration) ==
    /\ certDescription # Undefined
    /\ certDescription[1].NotAfter # Undefined
    /\ DaysUntilExpiry(certDescription[1].NotAfter[1]) <= maxDaysUntilExpiration

\* The certificate is reported: it has an expiry that is too close.
CertExpiresSoon(certDescription, maxDaysUntilExpiration) ==
    /\ certDescription # Undefined
    /\ certDescription[1].NotAfter # Undefined
    /\ DaysUntilExpiry(certDescription[1].NotAfter[1]) < maxDaysUntilExpiration

CertMessage(daysUntilExpiry, maxDaysUntilExpiration) ==
    [ text |-> "certificate expires in $1 (max allowed $2 days)",
      a |-> daysUntilExpiry, b |-> maxDaysUntilExpiration ]

\* The status test forgotten: only unprovisioned keys are skipped.
KeyIsSkipped_statusIgnored(instance) == Falsy(instance.id)

\* Access keys not yet provisioned, or inactive, are skipped.
KeyIsSkipped(instance) == Falsy(instance.id) \/ instance.status # "Active"

\* Math.floor((Date.now() - CreateDate) / msInDay)
DaysSinceCreated(createDate) == (Now - createDate) \div msInDay

\* The id never compared: any dated key of the user counts.
KeyMustBeRotated_anyKey(accessKey, instance, maxKeyAge) ==
    /\ accessKey.CreateDate # Undefined
    /\ DaysSinceCreated(accessKey.CreateDate[1]) > maxKeyAge

\* The age compared inclusively: a key exactly maxKeyAge days old counts.
KeyMustBeRotated_inclusive(accessKey, instance, maxKeyAge) ==
    /\ accessKey.AccessKeyId = instance.id
    /\ accessKey.CreateDate # Undefined
    /\ DaysSinceCreated(accessKey.CreateDate[1]) >= maxKeyAge

KeyMustBeRotated(accessKey, instance, maxKeyAge) ==
    /\ accessKey.AccessKeyId = instance.id
    /\ accessKey.CreateDate # Undefined
    /\ DaysSinceCreated(accessKey.CreateDate[1]) > maxKeyAge

KeyMessage(maxKeyAge, daysSinceCreated) ==
    [ text |-> "access key must be rotated within $1 days (key is $2 days old)",
      a |-> maxKeyAge, b |-> daysSinceCreated ]

\* The items of a page that the inner loop visits, in order.
ItemsExamined(accessKeysResp) == accessKeysResp.AccessKeyMetadata

\* The Marker never kept: every fetch is made without a cursor.
NextToken_dropped(accessKeysResp) == Undefined

\* paginationToken = accessKeysResp.Marker
NextToken(accessKeysResp) == accessKeysResp.Marker

\* while (accessKeysResp.IsTruncated)
FetchAgain(accessKeysResp) == accessKeysResp.IsTruncated

\* The messages one page makes the body report, in order.
KeyMessages(accessKeysResp, instance, maxKeyAge) ==
    LET offending == SelectSeq(ItemsExamined(accessKeysResp),
                               LAMBDA k : KeyMustBeRotated(k, instance, maxKeyAge))
    IN  [n \in 1..Len(offending) |->
            KeyMessage(maxKeyAge, DaysSinceCreated(offending[n].CreateDate[1]))]

\* The position of the first access key at or after from that is not skipped;
\* one past the end when there is none.
NextKey(input, from) ==
    LET rest == {j \in from..Len(input) : ~KeyIsSkipped(input[j])}
    IN  IF rest = {} THEN Len(input) + 1
        ELSE CHOOSE j \in rest : \A k \in rest : j <= k

\* The outer loop moves on: the next key's first fetch has no Marker.
IamEnter(task, from) ==
    LET j == NextKey(task.input, from)
    IN  [task EXCEPT !.pc = IF j > Len(task.input) THEN "done" ELSE "await",
                     !.i = j,
                     !.paginationToken = Undefined]

\* One device taken for none.
NoMfaDevice_atMostOne(mfaDevicesResp) == mfaDevicesResp.MFADevices <= 1

NoMfaDevice(mfaDevicesResp) == mfaDevicesResp.MFADevices = 0

MfaMessage(user) == [text |-> "no MFA device enabled for IAM User '$1'", a |-> user]

CmkMessage == [text |-> "CMK does not have the key rotation setting enabled"]

\* An absent encryptAtRest taken for encrypted.
NotEncryptedAtRest_absentOk(domain) ==
    domain.encryptAtRest # Undefined /\ domain.encryptAtRest[1].enabled = FALSE

NotEncryptedAtRest(domain) ==
    domain.encryptAtRest = Undefined \/ domain.encryptAtRest[1].enabled = FALSE

DomainMessage(domainName) ==
    [text |-> "Elasticsearch domain $1 must be encrypted at rest.", a |-> domainName]

\* ------------------------------------------------------------------ state
VARIABLES
    settings,       \* SecurityPolicySettings given to getPolicies
    enforcement,    \* the enforcement level given to getPolicies
    graph,          \* the stack: a sequence of resources, never changed
    account,        \* the provider's access keys of the user, and its paging
    pc,             \* the run: "setup", "dispatch", "resolved", "configError"
    policies,       \* the composed policy list
    cur,            \* position of the policy being dispatched
    ri,             \* resource-scoped dispatch: position in the graph
    awaiting,       \* the dispatcher awaits a resource validation's fetch
    polState,       \* the dispatcher's state of each policy
    violations,     \* the run: per policy, the violations reported in order
    outcome,        \* the resolved outcome of the run
    acm,            \* the body of acm-certificate-expiration
    iam,            \* the body of access-keys-rotated
    fetched,        \* history: the external fetches issued
    loop,           \* history: the listing loop of one access key
    acmLog,         \* history: the describeCertificate answers handled
    mfaLog          \* history: the listMFADevices answers handled

vars ==
    << settings, enforcement, graph, account, pc, policies, cur, ri, awaiting, polState,
       violations, outcome, acm, iam, fetched, loop, acmLog, mfaLog >>

inputs == <<settings, enforcement, graph, account>>

Terminal == {"Completed", "Errored", "Skipped"}

\* Longest history kept of one listing loop, and most violations kept per
\* policy: a well-behaved provider stays below both.
LogCap == MaxListing + 2
ViolationCap == MaxGraph * MaxListing + 1

Cut(seq, n) == SubSeq(seq, 1, Min(Len(seq), n))

\* reportViolation: the sink appends to the policy's list.  src names the
\* resource the body was looking at, late and post whether the policy was
\* already terminal and the run already resolved.
Reported(name, messages, urn, src) ==
    [ violations EXCEPT ![name] =
        Cut(@ \o [n \in 1..Len(messages) |->
                    [ message |-> messages[n], urn |-> urn, src |-> src,
                      late |-> polState[name] \in Terminal,
                      post |-> pc = "resolved" ]],
            ViolationCap) ]

IdleAcm == [pc |-> "idle", input |-> <<>>, i |-> 0, max |-> 0]
IdleIam == [pc |-> "idle", input |-> <<>>, i |-> 0, paginationToken |-> Undefined, maxKeyAge |-> 0]
NoLoop == [i |-> 0, requests |-> <<>>, pages |-> <<>>, examined |-> <<>>, closed |-> TRUE]

AcmRequest(task) ==
    [api |-> "describeCertificate", i |-> task.i, key |-> task.input[task.i].id, marker |-> Undefined]

IamRequest(task) ==
    [api |-> "listAccessKeys", i |-> task.i, key |-> task.input[task.i].user,
     marker |-> task.paginationToken]

MfaRequest(k) ==
    [api |-> "listMFADevices", i |-> k, key |-> graph[k].props.user, marker |-> Undefined]

InitWith(S, E, G, A) ==
    /\ settings \in S
    /\ enforcement \in E
    /\ graph \in G
    /\ account \in A
    /\ pc = "setup"
    /\ policies = <<>>
    /\ cur = 0
    /\ ri = 0
    /\ awaiting = FALSE
    /\ polState = [n \in PolicyNames |-> "Pending"]
    /\ violations = [n \in PolicyNames |-> <<>>]
    /\ outcome = "none"
    /\ acm = IdleAcm
    /\ iam = IdleIam
    /\ fetched = {}
    /\ loop = NoLoop
    /\ acmLog = <<>>
    /\ mfaLog = <<>>

\* ---------------------------------------------------------------- actions
\* The pack is built from the settings; a factory that throws ends the run
\* before anything is dispatched.
Setup ==
    /\ pc = "setup"
    /\ LET pack == PolicyPack(enforcement, settings)
       IN  /\ pc' = IF pack.threw THEN "configError" ELSE "dispatch"
           /\ policies' = pack.list
           /\ cur' = IF pack.threw THEN 0 ELSE 1
    /\ UNCHANGED << inputs, ri, awaiting, polState, violations, outcome, acm, iam,
                    fetched, loop, acmLog, mfaLog >>

Dispatching(name) ==
    /\ pc = "dispatch"
    /\ ~awaiting
    /\ cur <= Len(policies)
    /\ policies[cur].name = name

\* A disabled policy is never dispatched.
DispatchSkipped ==
    /\ pc = "dispatch"
    /\ cur <= Len(policies)
    /\ policies[cur].enforcementLevel = "disabled"
    /\ polState' = [polState EXCEPT ![policies[cur].name] = "Skipped"]
    /\ cur' = cur + 1
    /\ UNCHANGED << inputs, pc, policies, ri, awaiting, violations, outcome, acm, iam,
                    fetched, loop, acmLog, mfaLog >>

\* validateStack of acm-certificate-expiration: the filter, then the body up
\* to its first await; the promise of the body is dropped and the validation
\* returns.
DispatchAcm ==
    /\ Dispatching("acm-certificate-expiration")
    /\ policies[cur].enforcementLevel # "disabled"
    /\ LET acmCertificates == validateTypedResources(CertificateType, graph)
           task == [ pc |-> IF acmCertificates = <<>> THEN "done" ELSE "await",
                     input |-> acmCertificates, i |-> 1, max |-> policies[cur].max ]
       IN  /\ acm' = task
           /\ fetched' = IF task.pc = "await" THEN fetched \cup {AcmRequest(task)} ELSE fetched
    /\ polState' = [polState EXCEPT !["acm-certificate-expiration"] = "Completed"]
    /\ cur' = cur + 1
    /\ UNCHANGED << inputs, pc, policies, ri, awaiting, violations, outcome, iam, loop,
                    acmLog, mfaLog >>

\* describeCertificate answers: the body resumes, reports, and goes on to the
\* next certificate.
AcmRespond ==
    /\ acm.pc = "await"
    /\ \E describeCertResp \in DescribeCertificateResponses :
        LET certDescription == describeCertResp.Certificate
            messages ==
                IF CertExpiresSoon(certDescription, acm.max)
                THEN <<CertMessage(DaysUntilExpiry(certDescription[1].NotAfter[1]), acm.max)>>
                ELSE <<>>
            task == IF acm.i < Len(acm.input)
                    THEN [acm EXCEPT !.i = @ + 1]
                    ELSE [acm EXCEPT !.pc = "done"]
        IN  /\ violations' = Reported("acm-certificate-expiration", messages, Undefined, acm.i)
            /\ acm' = task
            /\ fetched' = IF task.pc = "await" THEN fetched \cup {AcmRequest(task)} ELSE fetched
            /\ acmLog' = Append(acmLog, [i |-> acm.i, resp |-> describeCertResp])
    /\ UNCHANGED << inputs, pc, policies, cur, ri, awaiting, polState, outcome, iam, loop,
                    mfaLog >>

\* describeCertificate fails: the body's promise rejects, and nobody holds it.
AcmFail ==
    /\ acm.pc = "await"
    /\ acm' = [acm EXCEPT !.pc = "rejected"]
    /\ UNCHANGED << inputs, pc, policies, cur, ri, awaiting, polState, violations, outcome,
                    iam, fetched, loop, acmLog, mfaLog >>

\* validateStack of access-keys-rotated, as DispatchAcm.
DispatchIam ==
    /\ Dispatching("access-keys-rotated")
    /\ policies[cur].enforcementLevel # "disabled"
    /\ LET accessKeys == validateTypedResources(AccessKeyType, graph)
           task == IamEnter([IdleIam EXCEPT !.input = accessKeys,
                                            !.maxKeyAge = policies[cur].max], 1)
       IN  /\ iam' = task
           /\ fetched' = IF task.pc = "await" THEN fetched \cup {IamRequest(task)} ELSE fetched
    /\ polState' = [polState EXCEPT !["access-keys-rotated"] = "Completed"]
    /\ cur' = cur + 1
    /\ UNCHANGED << inputs, pc, policies, ri, awaiting, violations, outcome, acm, loop,
                    acmLog, mfaLog >>

\* listAccessKeys answers with a page: the body examines its items, keeps the
\* Marker, and fetches again or moves on to the next access key.
IamRespond ==
    /\ iam.pc = "await"
    /\ LET instance == iam.input[iam.i]
           accessKeysResp == ListAccessKeysPage(account, iam.paginationToken)
           task == IF FetchAgain(accessKeysResp)
                   THEN [iam EXCEPT !.paginationToken = NextToken(accessKeysResp)]
                   ELSE IamEnter(iam, iam.i + 1)
           sofar == IF loop.i = iam.i /\ ~loop.closed THEN loop ELSE [NoLoop EXCEPT !.i = iam.i]
       IN  /\ violations' = Reported("access-keys-rotated",
                                     KeyMessages(accessKeysResp, instance, iam.maxKeyAge),
                                     Undefined, iam.i)
           /\ iam' = task
           /\ fetched' = IF task.pc = "await" THEN fetched \cup {IamRequest(task)} ELSE fetched
           /\ loop' = [ i |-> iam.i,
                        requests |-> Cut(Append(sofar.requests, iam.paginationToken), LogCap),
                        pages |-> Cut(Append(sofar.pages, accessKeysResp), LogCap),
                        examined |-> Cut(sofar.examined \o ItemsExamined(accessKeysResp), LogCap),
                        closed |-> ~FetchAgain(accessKeysResp) ]
    /\ UNCHANGED << inputs, pc, policies, cur, ri, awaiting, polState, outcome, acm,
                    acmLog, mfaLog >>

\* listAccessKeys fails: the body's promise rejects, and nobody holds it.
IamFail ==
    /\ iam.pc = "await"
    /\ iam' = [iam EXCEPT !.pc = "rejected"]
    /\ UNCHANGED << inputs, pc, policies, cur, ri, awaiting, polState, violations, outcome,
                    acm, fetched, loop, acmLog, mfaLog >>

\* The positions of the graph's resources of a type, for a resource-scoped
\* validation.
Matching(type) == {k \in 1..Len(graph) : graph[k].type = type}

\* The messages a synchronous resource validation reports over the graph.
RECURSIVE SyncViolations(_, _, _, _)
SyncViolations(name, type, k, acc) ==
    IF k > Len(graph) THEN acc
    ELSE LET props == graph[k].props
             hit == /\ graph[k].type = type
                    /\ IF type = KeyType THEN ~props.enableKeyRotation
                       ELSE NotEncryptedAtRest(props)
             message == IF type = KeyType THEN CmkMessage ELSE DomainMessage(props.domainName)
             entry == [ message |-> message, urn |-> <<k>>, src |-> k,
                        late |-> FALSE, post |-> FALSE ]
         IN  SyncViolations(name, type, k + 1, IF hit THEN Append(acc, entry) ELSE acc)

\* cmk-backing-key-rotation-enabled over every resource of the graph.
DispatchCmk ==
    /\ Dispatching("cmk-backing-key-rotation-enabled")
    /\ policies[cur].enforcementLevel # "disabled"
    /\ violations' = [violations EXCEPT !["cmk-backing-key-rotation-enabled"] =
                        SyncViolations("cmk-backing-key-rotation-enabled", KeyType, 1, <<>>)]
    /\ polState' = [polState EXCEPT !["cmk-backing-key-rotation-enabled"] = "Completed"]
    /\ cur' = cur + 1
    /\ UNCHANGED << inputs, pc, policies, ri, awaiting, outcome, acm, iam, fetched, loop,
                    acmLog, mfaLog >>

\* elasticsearch-encrypted-at-rest over every resource of the graph.
DispatchEs ==
    /\ Dispatching("elasticsearch-encrypted-at-rest")
    /\ policies[cur].enforcementLevel # "disabled"
    /\ violations' = [violations EXCEPT !["elasticsearch-encrypted-at-rest"] =
                        SyncViolations("elasticsearch-encrypted-at-rest", DomainType, 1, <<>>)]
    /\ polState' = [polState EXCEPT !["elasticsearch-encrypted-at-rest"] = "Completed"]
    /\ cur' = cur + 1
    /\ UNCHANGED << inputs, pc, policies, ri, awaiting, outcome, acm, iam, fetched, loop,
                    acmLog, mfaLog >>

\* mfa-enabled-for-iam-console-access: the next console login of the graph is
\* validated, its body fetching the user's devices; with none left the policy
\* completes.
DispatchMfa ==
    /\ Dispatching("mfa-enabled-for-iam-console-access")
    /\ policies[cur].enforcementLevel # "disabled"
    /\ LET rest == {k \in Matching(UserLoginProfileType) : k > ri}
       IN  IF rest = {}
           THEN /\ polState' = [polState EXCEPT
                                  !["mfa-enabled-for-iam-console-access"] = "Completed"]
                /\ cur' = cur + 1
                /\ ri' = 0
                /\ UNCHANGED << awaiting, fetched >>
           ELSE LET k == CHOOSE j \in rest : \A m \in rest : j <= m
                IN  /\ polState' = [polState EXCEPT
                                      !["mfa-enabled-for-iam-console-access"] = "Running"]
                    /\ ri' = k
                    /\ awaiting' = TRUE
                    /\ fetched' = fetched \cup {MfaRequest(k)}
                    /\ cur' = cur
    /\ UNCHANGED << inputs, pc, policies, violations, outcome, acm, iam, loop, acmLog, mfaLog >>

\* listMFADevices answers with its first page.
MfaRespond ==
    /\ pc = "dispatch"
    /\ awaiting
    /\ \E mfaDevicesResp \in [MFADevices : 0..MaxDevices, IsTruncated : BOOLEAN] :
        /\ violations' =
             Reported("mfa-enabled-for-iam-console-access",
                      IF NoMfaDevice(mfaDevicesResp)
                      THEN <<MfaMessage(graph[ri].props.user)>> ELSE <<>>,
                      <<ri>>, ri)
        /\ mfaLog' = Append(mfaLog, [i |-> ri, resp |-> mfaDevicesResp])
    /\ awaiting' = FALSE
    /\ UNCHANGED << inputs, pc, policies, cur, ri, polState, outcome, acm, iam, fetched,
                    loop, acmLog >>

\* listMFADevices fails: the validation rejects and the dispatcher records the
\* policy as errored.
MfaFail ==
    /\ pc = "dispatch"
    /\ awaiting
    /\ awaiting' = FALSE
    /\ polState' = [polState EXCEPT !["mfa-enabled-for-iam-console-access"] = "Errored"]
    /\ cur' = cur + 1
    /\ ri' = 0
    /\ UNCHANGED << inputs, pc, policies, violations, outcome, acm, iam, fetched, loop,
                    acmLog, mfaLog >>

\* The outcome of a run from its policies' states and violations.
Resolution(list, states, found) ==
    LET with(level) == \E k \in 1..Len(list) :
                          /\ list[k].enforcementLevel = level
                          /\ found[list[k].name] # <<>>
    IN  IF with("mandatory") \/ \E k \in 1..Len(list) : states[list[k].name] = "Errored"
        THEN "failed"
        ELSE IF with("advisory") THEN "passed-with-warnings" ELSE "passed"

\* Every policy is terminal: the run is resolved.
Resolve ==
    /\ pc = "dispatch"
    /\ cur > Len(policies)
    /\ outcome' = Resolution(policies, polState, violations)
    /\ pc' = "resolved"
    /\ UNCHANGED << inputs, policies, cur, ri, awaiting, polState, violations, acm, iam,
                    fetched, loop, acmLog, mfaLog >>

Next ==
    \/ Setup
    \/ DispatchSkipped
    \/ DispatchAcm
    \/ AcmRespond
    \/ AcmFail
    \/ DispatchCmk
    \/ DispatchIam
    \/ IamRespond
    \/ IamFail
    \/ DispatchMfa
    \/ MfaRespond
    \/ MfaFail
    \/ DispatchEs
    \/ Resolve

\* ---------------------------------------------------------- specifications
ValidSettings ==
    [ acmCheckCertificateExpirationMaxDays : {Undefined},
      iamAccessKeysRotatedMaxDays : {<<0>>, <<1>>} ]

\* The run as a whole: every graph up to MaxGraph, an account of at most one
\* key that pages to its end.
SmallAccounts ==
    {a \in Accounts : Len(a.listing) <= 1 /\ a.pageSize = 1 /\ a.mode = "ok"}

Init == InitWith(ValidSettings, EnforcementLevels, SeqsUpTo(Resources, MaxGraph), SmallAccounts)

Spec == Init /\ [][Next]_vars

\* The listing loop: every account, over a few graphs with active keys.
Cert == CHOOSE r \in Certificates : TRUE
Login == CHOOSE r \in UserLoginProfiles : TRUE
ActiveKey == CHOOSE r \in AccessKeys : ~KeyIsSkipped(r.props)
InactiveKey == CHOOSE r \in AccessKeys : r.props.status # "Active"

PagingGraphs ==
    { <<ActiveKey>>, <<InactiveKey, ActiveKey>>, <<ActiveKey, ActiveKey>>, <<Cert>>, <<Login>> }

PagingSettings ==
    [acmCheckCertificateExpirationMaxDays : {Undefined}, iamAccessKeysRotatedMaxDays : {<<1>>}]

InitPaging == InitWith(PagingSettings, {"mandatory", "disabled"}, PagingGraphs, Accounts)

SpecPaging == InitPaging /\ [][Next]_vars

\* The event loop runs what is ready: a fetch in flight is answered and its
\* continuation runs, and the dispatcher goes on.
FairPaging == InitPaging /\ [][Next]_vars /\ WF_vars(Next)

\* Construction: every maxKeyAge around the valid range, and the default.
KeyAgesTried == {Undefined} \cup {<<m>> : m \in (0 - 1)..(2 * 365 + 2)}

ConfigSettings ==
    [acmCheckCertificateExpirationMaxDays : {Undefined},
     iamAccessKeysRotatedMaxDays : KeyAgesTried]

ConfigAccounts == {a \in SmallAccounts : a.listing = <<>>}

InitConfig ==
    InitWith(ConfigSettings, {"mandatory", "disabled"}, {<<Cert>>, <<ActiveKey>>, <<Login>>},
             ConfigAccounts)

SpecConfig == InitConfig /\ [][Next]_vars

\* ----------------------------------------------------------------- claims
StackPolicies == {"acm-certificate-expiration", "access-keys-rotated"}

Body(name) == IF name = "acm-certificate-expiration" THEN acm ELSE iam

\* The violations of a policy reported while its body looked at position i.
About(name, i) == {k \in 1..Len(violations[name]) : violations[name][k].src = i}

\* C1: whenever describeCertificate or listAccessKeys fails while the body of
\* a stack-scoped policy runs, that policy is Errored, never Completed, and a
\* resolved run is failed whatever the enforcement level.
C1_FailedLookupErrorsPolicy ==
    \A name \in StackPolicies :
        Body(name).pc = "rejected" =>
            /\ polState[name] = "Errored"
            /\ pc = "resolved" => outcome = "failed"

\* C2: a stack-scoped policy is Completed only once its body has finished,
\* and no violation of it is reported after the policy is terminal or after
\* the run is resolved.
C2_ViolationsBeforeCompletion ==
    \A name \in StackPolicies :
        /\ polState[name] = "Completed" => Body(name).pc = "done"
        /\ \A k \in 1..Len(violations[name]) :
               ~violations[name][k].late /\ ~violations[name][k].post

\* C3: the listing loop of access-keys-rotated always terminates: a fetch in
\* flight is followed by the end of the body, normally or by an error, even
\* when the provider reports more data on every page.
C3_ListingLoopTerminates == (iam.pc = "await") ~> (iam.pc \in {"done", "rejected"})

\* The fetches of an api issued for position i of its body's input.
Fetches(api, i) == {f \in fetched : f.api = api /\ f.i = i}

RECURSIVE Flatten(_)
Flatten(pages) ==
    IF pages = <<>> THEN <<>>
    ELSE Head(pages).AccessKeyMetadata \o Flatten(Tail(pages))

\* C4: the listing loop fetches first with no cursor and then with the cursor
\* of the page just before; once the provider has signalled completion the
\* loop has stopped at the first such page and has examined every item of
\* every page once, in order: the user's full listing.
C4_LoopFollowsPageChain ==
    loop.i > 0 =>
        /\ loop.requests[1] = Undefined
        /\ \A j \in 2..Len(loop.requests) : loop.requests[j] = loop.pages[j - 1].Marker
        /\ \A j \in 1..(Len(loop.pages) - 1) : loop.pages[j].IsTruncated
        /\ loop.closed =>
              /\ ~loop.pages[Len(loop.pages)].IsTruncated
              /\ loop.examined = Flatten(loop.pages)
              /\ loop.examined = account.listing

\* A loop of two pages has ended, having examined both keys of the listing.
C4_Witness ==
    /\ loop.closed
    /\ Len(loop.pages) = 2
    /\ loop.requests[2] # Undefined
    /\ Len(account.listing) = 2
    /\ loop.examined = account.listing

\* C5: construction fails exactly when a maxKeyAge is given that lies outside
\* [1, 730]; then there is no policy list, no policy is dispatched, no body
\* runs and nothing is fetched.  The default passes.
C5_MaxKeyAgeCheckedAtConstruction ==
    LET given == settings.iamAccessKeysRotatedMaxDays
        inRange == given = Undefined \/ (1 <= given[1] /\ given[1] <= 730)
    IN  pc # "setup" =>
            /\ pc = "configError" <=> ~inRange
            /\ inRange => Len(policies) > 0
            /\ pc = "configError" =>
                  /\ policies = <<>>
                  /\ fetched = {}
                  /\ acm.pc = "idle" /\ iam.pc = "idle" /\ ~awaiting
                  /\ acmLog = <<>> /\ mfaLog = <<>> /\ loop.i = 0
                  /\ outcome = "none"
                  /\ \A name \in PolicyNames :
                        polState[name] = "Pending" /\ violations[name] = <<>>

\* Construction with maxKeyAge = 0 has failed.
C5_Witness ==
    /\ pc = "configError"
    /\ settings.iamAccessKeysRotatedMaxDays = <<0>>

\* C6: an access key that is not Active, or has no id yet, is never fetched
\* for and never reported; the keys that are neither are still fetched for.
C6_SkippedKeysUntouched ==
    iam.pc # "idle" =>
        \A i \in 1..Len(iam.input) :
            LET key == iam.input[i]
                skipped == key.status # "Active" \/ key.id = NoString
            IN  /\ skipped =>
                      /\ Fetches("listAccessKeys", i) = {}
                      /\ About("access-keys-rotated", i) = {}
                /\ (~skipped /\ (iam.pc = "done" \/ i < iam.i)) =>
                      Fetches("listAccessKeys", i) # {}

\* An inactive key was passed over, and the active key after it was fetched
\* for and reported.
C6_Witness ==
    /\ iam.pc = "done"
    /\ Len(iam.input) = 2
    /\ iam.input[1].status = "Inactive"
    /\ Fetches("listAccessKeys", 1) = {}
    /\ Fetches("listAccessKeys", 2) # {}
    /\ About("access-keys-rotated", 2) # {}

\* The whole days from Now to an instant, found by bracketing, among the
\* days the provider's answers span.
DaysTried == (0 - 1)..14

NoExpiry(describeCertResp) ==
    \/ describeCertResp.Certificate = Undefined
    \/ describeCertResp.Certificate[1].NotAfter = Undefined

\* C7 as stated: at mandatory with the threshold 14, a certificate with no
\* expiry set gets exactly one violation, and a resolved run is failed.
C7_NoExpiryReportedOnce ==
    (enforcement = "mandatory" /\ acm.max = 14) =>
        \A k \in 1..Len(acmLog) :
            ( /\ acmLog[k].resp.Certificate # Undefined
              /\ acmLog[k].resp.Certificate[1].NotAfter = Undefined ) =>
                /\ Cardinality(About("acm-certificate-expiration", acmLog[k].i)) = 1
                /\ pc = "resolved" => outcome = "failed"

\* C7 amended: at mandatory with the threshold 14, a certificate whose
\* description has no expiry gets no violation; one with an expiry gets
\* exactly one violation if its whole days until expiry are below 14, with
\* the days and the threshold in the message and no resource reference, and
\* none otherwise.
C7_ExpiryDecidesViolation ==
    (enforcement = "mandatory" /\ acm.max = 14) =>
        \A k \in 1..Len(acmLog) :
            LET about == About("acm-certificate-expiration", acmLog[k].i)
                resp == acmLog[k].resp
            IN  IF NoExpiry(resp)
                THEN about = {}
                ELSE \E d \in DaysTried :
                        /\ d * msInDay <= resp.Certificate[1].NotAfter[1] - Now
                        /\ resp.Certificate[1].NotAfter[1] - Now < (d + 1) * msInDay
                        /\ IF d < 14
                           THEN /\ Cardinality(about) = 1
                                /\ \A v \in about :
                                     LET rep == violations["acm-certificate-expiration"][v]
                                     IN  /\ rep.message = CertMessage(d, 14)
                                         /\ rep.urn = Undefined
                           ELSE about = {}

\* Of two certificates handled at mandatory, the one with no expiry went
\* unreported and the one expiring in 13 days was reported once.
C7_Witness ==
    /\ enforcement = "mandatory"
    /\ acm.pc = "done"
    /\ Len(acmLog) = 2
    /\ acmLog[1].resp = [Certificate |-> <<[NotAfter |-> Undefined]>>]
    /\ About("acm-certificate-expiration", 1) = {}
    /\ acmLog[2].resp = [Certificate |-> <<[NotAfter |-> <<Now + 14 * msInDay - 1>>]>>]
    /\ Cardinality(About("acm-certificate-expiration", 2)) = 1

\* C8: a console login whose first page of devices is empty gets exactly one
\* violation, naming its user; one with a device on that page gets none; and
\* one fetch, without cursor, is all that is made for it.
C8_MfaViolationIffNoDevice ==
    /\ \A k \in 1..Len(mfaLog) :
        LET at == mfaLog[k].i
            about == About("mfa-enabled-for-iam-console-access", at)
        IN  /\ graph[at].type = UserLoginProfileType
            /\ mfaLog[k].resp.MFADevices = 0 =>
                  /\ Cardinality(about) = 1
                  /\ \A v \in about :
                       LET rep == violations["mfa-enabled-for-iam-console-access"][v]
                       IN  /\ rep.message.a = graph[at].props.user
                           /\ rep.urn = <<at>>
            /\ mfaLog[k].resp.MFADevices >= 1 => about = {}
            /\ \A j \in 1..Len(mfaLog) : mfaLog[j].i = at => j = k
            /\ \A f \in Fetches("listMFADevices", at) : f.marker = Undefined
    /\ \A i \in 1..Len(graph) :
        (\A k \in 1..Len(mfaLog) : mfaLog[k].i # i) =>
            About("mfa-enabled-for-iam-console-access", i) = {}

\* Two console logins were checked: the first, with an empty and truncated
\* first page, was reported; the second, with a device, was not.
C8_Witness ==
    /\ polState["mfa-enabled-for-iam-console-access"] = "Completed"
    /\ Len(mfaLog) = 2
    /\ mfaLog[1].resp = [MFADevices |-> 0, IsTruncated |-> TRUE]
    /\ Cardinality(About("mfa-enabled-for-iam-console-access", mfaLog[1].i)) = 1
    /\ mfaLog[2].resp.MFADevices = 1
    /\ About("mfa-enabled-for-iam-console-access", mfaLog[2].i) = {}

\* C9: once elasticsearch-encrypted-at-rest has completed, a resource has a
\* violation of it, exactly one and with the domain's name in the message,
\* if and only if it is a domain whose encryptAtRest is absent or not
\* enabled.
C9_DomainReportedIffNotEncrypted ==
    polState["elasticsearch-encrypted-at-rest"] = "Completed" =>
        \A i \in 1..Len(graph) :
            LET about == About("elasticsearch-encrypted-at-rest", i)
                props == graph[i].props
                encrypted == /\ props.encryptAtRest # Undefined
                             /\ props.encryptAtRest[1].enabled = TRUE
            IN  IF graph[i].type = DomainType /\ ~encrypted
                THEN /\ Cardinality(about) = 1
                     /\ \A v \in about :
                          LET rep == violations["elasticsearch-encrypted-at-rest"][v]
                          IN  /\ rep.message.text = "Elasticsearch domain $1 must be encrypted at rest."
                              /\ rep.message.a = props.domainName
                ELSE about = {}

\* A domain without encryptAtRest was reported and an encrypted one was not.
C9_Witness ==
    /\ polState["elasticsearch-encrypted-at-rest"] = "Completed"
    /\ Len(graph) = 2
    /\ graph[1].type = DomainType /\ graph[1].props.encryptAtRest = Undefined
    /\ graph[2].type = DomainType /\ graph[2].props.encryptAtRest = <<[enabled |-> TRUE]>>
    /\ Cardinality(About("elasticsearch-encrypted-at-rest", 1)) = 1
    /\ About("elasticsearch-encrypted-at-rest", 2) = {}

TypeOf(name) == IF name = "acm-certificate-expiration" THEN CertificateType ELSE AccessKeyType

ApiOf(name) ==
    IF name = "acm-certificate-expiration" THEN "describeCertificate" ELSE "listAccessKeys"

\* The input of a stack-scoped body is the graph's resources of its type, in
\* graph order; with none of them the body got an empty input and ended at
\* once, with no fetch, no violation and no error.
FilterKeepsMatchingInOrder ==
    \A name \in StackPolicies :
        Body(name).pc # "idle" =>
            LET input == Body(name).input
                at == {k \in 1..Len(graph) : graph[k].type = TypeOf(name)}
                rank(k) == Cardinality({m \in at : m <= k})
            IN  /\ Len(input) = Cardinality(at)
                /\ \A k \in at :
                     /\ input[rank(k)]["__pulumiType"] = TypeOf(name)
                     /\ \A field \in DOMAIN graph[k].props :
                          input[rank(k)][field] = graph[k].props[field]
                /\ at = {} =>
                     /\ input = <<>>
                     /\ Body(name).pc = "done"
                     /\ {f \in fetched : f.api = ApiOf(name)} = {}
                     /\ violations[name] = <<>>
                     /\ polState[name] = "Completed"

\* C10: the typed filter hands a body the matching resources in graph order
\* and an empty sequence when none matches, after which the policy fetches
\* nothing, reports nothing and does not err; no step changes the graph.
C10_TypedFilter == []FilterKeepsMatchingInOrder /\ [][graph' = graph]_vars

\* The access-key body got an inactive and an active key in graph order,
\* and the certificate body, with no certificate in the graph, ended at once.
C10_Witness ==
    /\ Len(graph) = 2
    /\ iam.pc # "idle"
    /\ Len(iam.input) = 2
    /\ iam.input[1].status = "Inactive"
    /\ iam.input[2].status = "Active"
    /\ acm.pc = "done"
    /\ acm.input = <<>>

\* The whole days since an instant, found by bracketing, among the ages the
\* provider's keys span.
AgesTried == 0..3

WholeDaysOld(accessKey, d) ==
    /\ d * msInDay <= Now - accessKey.CreateDate[1]
    /\ Now - accessKey.CreateDate[1] < (d + 1) * msInDay

\* The items examined so far in the listing loop that carry the id of the
\* access key the loop is for, and a creation date.
Correlated ==
    {n \in 1..Len(loop.examined) :
        /\ loop.examined[n].AccessKeyId = iam.input[loop.i].id
        /\ loop.examined[n].CreateDate # Undefined}

\* C11: in the listing loop of an access key only the listed items with that
\* key's id and a creation date can be reported: there are no more
\* violations for the key than such items, each violation states the age of
\* one of them, and with none of them there is no violation, however old
\* the user's other keys are.
C11_OnlyCorrelatedItemsReported ==
    (loop.i > 0 /\ account.mode = "ok") =>
        LET about == About("access-keys-rotated", loop.i)
        IN  /\ Cardinality(about) <= Cardinality(Correlated)
            /\ \A v \in about :
                 \E n \in Correlated :
                    \E d \in AgesTried :
                       /\ WholeDaysOld(loop.examined[n], d)
                       /\ violations["access-keys-rotated"][v].message.b = d

\* A loop of two pages has ended: the user's other key, two days old, and the
\* key's own undated entry were examined, and nothing was reported.
C11_Witness ==
    /\ loop.closed
    /\ loop.i > 0
    /\ account.mode = "ok"
    /\ Len(loop.pages) = 2
    /\ loop.examined = << [AccessKeyId |-> "k2", CreateDate |-> <<Now - 2 * msInDay>>],
                          [AccessKeyId |-> "k1", CreateDate |-> Undefined] >>
    /\ iam.maxKeyAge = 1
    /\ About("access-keys-rotated", loop.i) = {}

\* The correlated items examined so far whose whole days of age exceed max.
TooOld(max) ==
    {n \in Correlated : \E d \in AgesTried : WholeDaysOld(loop.examined[n], d) /\ d > max}

\* C12: for an access key the violations reported are as many as the
\* correlated, dated items whose age in whole days, rounded down, is
\* strictly above maxKeyAge: an item exactly maxKeyAge whole days old is not
\* reported, one of maxKeyAge + 1 whole days is; every message states
\* maxKeyAge and an age above it.
C12_ReportedIffOlderThanMax ==
    (loop.i > 0 /\ account.mode = "ok") =>
        LET about == About("access-keys-rotated", loop.i)
        IN  /\ Cardinality(about) = Cardinality(TooOld(iam.maxKeyAge))
            /\ \A n \in Correlated :
                 /\ WholeDaysOld(loop.examined[n], iam.maxKeyAge) => n \notin TooOld(iam.maxKeyAge)
                 /\ WholeDaysOld(loop.examined[n], iam.maxKeyAge + 1) => n \in TooOld(iam.maxKeyAge)
            /\ \A v \in about :
                 LET message == violations["access-keys-rotated"][v].message
                 IN  /\ message.a = iam.maxKeyAge
                     /\ message.b > iam.maxKeyAge
                     /\ \E n \in TooOld(iam.maxKeyAge) : WholeDaysOld(loop.examined[n], message.b)

\* With maxKeyAge = 1 the key was listed twice, one millisecond short of two
\* days old and exactly two days old: only the second was reported, as two
\* days old.
C12_Witness ==
    /\ loop.closed
    /\ loop.i > 0
    /\ account.mode = "ok"
    /\ iam.maxKeyAge = 1
    /\ loop.examined = << [AccessKeyId |-> "k1", CreateDate |-> <<Now - 2 * msInDay + 1>>],
                          [AccessKeyId |-> "k1", CreateDate |-> <<Now - 2 * msInDay>>] >>
    /\ Cardinality(About("access-keys-rotated", loop.i)) = 1
    /\ \A v \in About("access-keys-rotated", loop.i) :
          violations["access-keys-rotated"][v].message = KeyMessage(1, 2)

====
